---- MODULE Spec2Model ----
(***************************************************************************)
(* Model of frame/support/procedural/src/pallet/expand/call.rs:            *)
(* the thread-local identifier COUNTER, the code generator expand_call,    *)
(* and the behaviour of the code it generates (enum Call,                  *)
(* get_dispatch_info, get_call_name(s), dispatch_bypass_filter,            *)
(* call_functions).                                                        *)
(***************************************************************************)
EXTENDS Integers, Sequences, FiniteSets, TLC

(* ---------------------------- bounds ----------------------------------- *)
NumThreads == 2
MaxExpansions == 3
MaxMethods == 2
MaxArgValue == 1

Threads == 1..NumThreads

(* ---------------------------- helpers ---------------------------------- *)
None == [tag |-> "None"]
Some(v) == [tag |-> "Some", value |-> v]

RECURSIVE Concat(_)
Concat(s) == IF s = <<>> THEN "" ELSE Head(s) \o Concat(Tail(s))

Map(s, F(_)) == [i \in DOMAIN s |-> F(s[i])]

(* ------------------- the parsed pallet definition ---------------------- *)
(* Type expressions are token sequences, as syn/proc_macro2 hold them.     *)
TyU32 == <<"u32">>
TyU64 == <<"u64">>
TyAccountId == <<"T", "::", "AccountId">>

Arg(is_compact, name, type_) ==
    [is_compact |-> is_compact, name |-> name, type_ |-> type_]

(* A weight expression: it may read one bound argument (arg_ref) and       *)
(* evaluates to a value that answers the three queries.                    *)
WeightExpr(base, arg_ref, per_arg, class, pays) ==
    [base |-> base, arg_ref |-> arg_ref, per_arg |-> per_arg,
     class |-> class, pays |-> pays]

MethodSetValue ==
    [name |-> "set_value",
     args |-> <<Arg(FALSE, "new", TyU32)>>,
     weight |-> WeightExpr(10, "", 0, "Normal", TRUE),
     docs |-> <<"Set the value.">>]

MethodTransfer ==
    [name |-> "transfer",
     args |-> <<Arg(FALSE, "dest", TyAccountId), Arg(TRUE, "value", TyU64)>>,
     weight |-> WeightExpr(5, "value", 3, "Normal", TRUE),
     docs |-> <<"Transfer some balance.", "Origin must be signed.">>]

MethodKill ==
    [name |-> "kill",
     args |-> <<>>,
     weight |-> WeightExpr(7, "", 0, "Mandatory", FALSE),
     docs |-> <<"Kill the value.">>]

AllMethods == <<MethodSetValue, MethodTransfer, MethodKill>>

(* Method lists with pairwise distinct names (enforced by the parser).     *)
MethodLists ==
    UNION {{[i \in 1..n |-> AllMethods[p[i]]] :
              p \in {q \in [1..n -> DOMAIN AllMethods] :
                       \A i, j \in 1..n : i # j => q[i] # q[j]}} :
           n \in 0..MaxMethods}

CallDef(methods, docs) == [methods |-> methods, docs |-> docs]

(* The doc lines of the call block: none on an empty block.                *)
CallDocs(methods) ==
    IF methods = <<>> THEN <<>> ELSE <<"The pallet's calls.">>

(* def.call is None when no #[pallet::call] block was declared.            *)
Defs ==
    {[call |-> None]} \cup
    {[call |-> Some(CallDef(m, CallDocs(m)))] : m \in MethodLists}

(* ------------------------ the identifier counter ----------------------- *)
(* Variant of inc that forgets the increment.                              *)
inc_no_increment(self) == [ret |-> self, self |-> self]

(* Counter::inc: returns the old value and stores old + 1.                 *)
inc(self) == [ret |-> self, self |-> self + 1]

(* ------------------- token strings and their cleaning ------------------ *)
(* TokenStream::to_string: the tokens separated by single spaces.          *)
RECURSIVE to_string(_)
to_string(tokens) ==
    IF tokens = <<>> THEN <<>>
    ELSE IF Len(tokens) = 1 THEN tokens
    ELSE <<Head(tokens), " ">> \o to_string(Tail(tokens))

NoSpaceBefore == {"::", ",", ";", "[", "]", "(", ")", "<", ">"}
NoSpaceAfter == {"::", "[", "(", "<"}

(* clean_type_string: drops the space before and after path separators     *)
(* and brackets.                                                           *)
RECURSIVE clean_type_string(_)
clean_type_string(input) ==
    IF Len(input) < 2 THEN input
    ELSE IF input[1] = " " /\ input[2] \in NoSpaceBefore
         THEN clean_type_string(Tail(input))
    ELSE IF input[1] \in NoSpaceAfter /\ input[2] = " "
         THEN clean_type_string(<<input[1]>> \o Tail(Tail(input)))
    ELSE <<input[1]>> \o clean_type_string(Tail(input))

(* --------------------------- expand_call ------------------------------- *)
methods_of(def) ==
    IF def.call.tag = "Some" THEN def.call.value.methods ELSE <<>>

docs_of(def) ==
    IF def.call.tag = "Some" THEN def.call.value.docs ELSE <<>>

fn_name(methods) == Map(methods, LAMBDA method : method.name)

fn_weight(methods) == Map(methods, LAMBDA method : method.weight)

fn_doc(methods) == Map(methods, LAMBDA method : method.docs)

args_name(methods) ==
    Map(methods, LAMBDA method : Map(method.args, LAMBDA a : a.name))

args_type(methods) ==
    Map(methods, LAMBDA method : Map(method.args, LAMBDA a : a.type_))

args_compact_attr(methods) ==
    Map(methods, LAMBDA method :
        Map(method.args, LAMBDA a :
            IF a.is_compact THEN <<"#[codec(compact)]">> ELSE <<>>))

(* Variant of args_metadata_type that ignores the compact hint.            *)
args_metadata_type_bare(methods) ==
    Map(methods, LAMBDA method :
        Map(method.args, LAMBDA a :
            Concat(clean_type_string(to_string(a.type_)))))

args_metadata_type(methods) ==
    Map(methods, LAMBDA method :
        Map(method.args, LAMBDA a :
            LET final_type == IF a.is_compact
                              THEN <<"Compact", "<">> \o a.type_ \o <<">">>
                              ELSE a.type_
            IN Concat(clean_type_string(to_string(final_type)))))

default_docs ==
    <<"Contains one variant per dispatchable that can be called by an extrinsic.">>

enum_docs(def) == IF docs_of(def) = <<>> THEN default_docs ELSE docs_of(def)

(* Variant of maybe_compile_error that tests the method list, not the      *)
(* presence of the call block.                                             *)
maybe_compile_error_on_empty(def) ==
    IF methods_of(def) = <<>>
    THEN <<"compile_error!",
           "Pallet does not have #[pallet::call] defined. Did you forget to include it?">>
    ELSE <<>>

maybe_compile_error(def) ==
    IF def.call.tag = "None"
    THEN <<"compile_error!",
           "Pallet does not have #[pallet::call] defined. Did you forget to include it?">>
    ELSE <<>>

(* Variant of macro_ident that leaves the counter value out of the name.   *)
macro_ident_no_count(count) == "__is_call_part_defined"

macro_ident(count) == "__is_call_part_defined_" \o ToString(count)

(* Variant of the sentinel without its Never field.                        *)
ignore_variant_inhabited ==
    [name |-> "__Ignore",
     attrs |-> <<"#[doc(hidden)]", "#[codec(skip)]">>,
     doc |-> <<>>,
     fields |-> <<[attr |-> <<>>, type_ |-> <<"PhantomData">>]>>]

(* The sentinel variant: PhantomData of the generics and a Never field.    *)
ignore_variant ==
    [name |-> "__Ignore",
     attrs |-> <<"#[doc(hidden)]", "#[codec(skip)]">>,
     doc |-> <<>>,
     fields |-> <<[attr |-> <<>>, type_ |-> <<"PhantomData">>],
                  [attr |-> <<>>, type_ |-> <<"Never">>]>>]

(* pub enum Call { __Ignore(..), #( #fn_name( #( #attr #type ),* ), )* }    *)
enum_call(methods) ==
    <<ignore_variant>> \o
    [i \in DOMAIN fn_name(methods) |->
        [name |-> fn_name(methods)[i],
         attrs |-> <<>>,
         doc |-> fn_doc(methods)[i],
         fields |-> [j \in DOMAIN args_type(methods)[i] |->
                       [attr |-> args_compact_attr(methods)[i][j],
                        type_ |-> args_type(methods)[i][j]]]]]

(* Variant of get_dispatch_info without the sentinel arm.                   *)
get_dispatch_info_arms_no_sentinel(methods) ==
    [i \in DOMAIN fn_name(methods) |->
        [pattern |-> fn_name(methods)[i],
         binds |-> args_name(methods)[i],
         body |-> [kind |-> "info",
                   base_weight |-> fn_weight(methods)[i],
                   weigh_data |-> args_name(methods)[i],
                   classify_dispatch |-> args_name(methods)[i],
                   pays_fee |-> args_name(methods)[i]]]]

(* Variant of get_dispatch_info that takes every arm's weight expression   *)
(* from the first method.                                                  *)
get_dispatch_info_arms_first_weight(methods) ==
    [i \in DOMAIN fn_name(methods) |->
        [pattern |-> fn_name(methods)[i],
         binds |-> args_name(methods)[i],
         body |-> [kind |-> "info",
                   base_weight |-> [fn_weight(methods)[1] EXCEPT !.arg_ref = ""],
                   weigh_data |-> args_name(methods)[i],
                   classify_dispatch |-> args_name(methods)[i],
                   pays_fee |-> args_name(methods)[i]]]]
    \o <<[pattern |-> "__Ignore",
          binds |-> <<"_", "_">>,
          body |-> [kind |-> "unreachable",
                    msg |-> "__Ignore cannot be used"]]>>

(* The arms of `match *self` in get_dispatch_info.                         *)
get_dispatch_info_arms(methods) ==
    [i \in DOMAIN fn_name(methods) |->
        [pattern |-> fn_name(methods)[i],
         binds |-> args_name(methods)[i],
         body |-> [kind |-> "info",
                   base_weight |-> fn_weight(methods)[i],
                   weigh_data |-> args_name(methods)[i],
                   classify_dispatch |-> args_name(methods)[i],
                   pays_fee |-> args_name(methods)[i]]]]
    \o <<[pattern |-> "__Ignore",
          binds |-> <<"_", "_">>,
          body |-> [kind |-> "unreachable",
                    msg |-> "__Ignore cannot be used"]]>>

(* The arms of `match *self` in get_call_name.                             *)
get_call_name_arms(methods) ==
    [i \in DOMAIN fn_name(methods) |->
        [pattern |-> fn_name(methods)[i],
         binds |-> <<"..">>,
         body |-> [kind |-> "name", name |-> fn_name(methods)[i]]]]
    \o <<[pattern |-> "__Ignore",
          binds |-> <<"_", "_">>,
          body |-> [kind |-> "unreachable",
                    msg |-> "__PhantomItem cannot be used."]]>>

(* Variant of dispatch_bypass_filter whose arms all call the first method. *)
dispatch_bypass_filter_arms_first_callee(methods) ==
    [i \in DOMAIN fn_name(methods) |->
        [pattern |-> fn_name(methods)[i],
         binds |-> args_name(methods)[i],
         body |-> [kind |-> "call",
                   span |-> fn_name(methods)[i],
                   callee |-> fn_name(methods)[1],
                   args |-> <<"origin">> \o args_name(methods)[i]]]]
    \o <<[pattern |-> "__Ignore",
          binds |-> <<"_", "_">>,
          body |-> [kind |-> "unreachable",
                    msg |-> "__PhantomItem cannot be used."]]>>

(* The arms of `match self` in dispatch_bypass_filter.                     *)
dispatch_bypass_filter_arms(methods) ==
    [i \in DOMAIN fn_name(methods) |->
        [pattern |-> fn_name(methods)[i],
         binds |-> args_name(methods)[i],
         body |-> [kind |-> "call",
                   span |-> fn_name(methods)[i],
                   callee |-> fn_name(methods)[i],
                   args |-> <<"origin">> \o args_name(methods)[i]]]]
    \o <<[pattern |-> "__Ignore",
          binds |-> <<"_", "_">>,
          body |-> [kind |-> "unreachable",
                    msg |-> "__PhantomItem cannot be used."]]>>

(* Variant of call_functions that lists the arguments last to first.       *)
call_functions_table_reversed_args(methods) ==
    [i \in DOMAIN fn_name(methods) |->
        [name |-> fn_name(methods)[i],
         arguments |-> [j \in DOMAIN args_name(methods)[i] |->
            LET k == Len(args_name(methods)[i]) + 1 - j IN
                          [name |-> args_name(methods)[i][k],
                           ty |-> args_metadata_type(methods)[i][k]]],
         documentation |-> fn_doc(methods)[i]]]

(* The array literal returned by call_functions.                           *)
call_functions_table(methods) ==
    [i \in DOMAIN fn_name(methods) |->
        [name |-> fn_name(methods)[i],
         arguments |-> [j \in DOMAIN args_name(methods)[i] |->
                          [name |-> args_name(methods)[i][j],
                           ty |-> args_metadata_type(methods)[i][j]]],
         documentation |-> fn_doc(methods)[i]]]

(* expand_call: the token stream it returns, given the counter value.      *)
expand_call(def, count) ==
    LET methods == methods_of(def) IN
    [macro_ident |-> macro_ident(count),
     macro_body |-> maybe_compile_error(def),
     alias |-> "__is_call_part_defined",
     docs |-> enum_docs(def),
     enum |-> enum_call(methods),
     get_dispatch_info |-> get_dispatch_info_arms(methods),
     get_call_name |-> get_call_name_arms(methods),
     get_call_names |-> fn_name(methods),
     dispatch_bypass_filter |-> dispatch_bypass_filter_arms(methods),
     call_functions |-> call_functions_table(methods)]

(* ------------------ behaviour of the generated code -------------------- *)
(* The inhabitants of a field type: Never has none.                        *)
TypeValues(type_) ==
    IF type_ = <<"Never">> THEN {}
    ELSE IF type_ = <<"PhantomData">> THEN {0}
    ELSE 0..MaxArgValue

(* The values of one variant: one inhabitant per field.                    *)
VariantValues(variant) ==
    {[variant |-> variant.name, args |-> a] :
        a \in {f \in [DOMAIN variant.fields -> 0..MaxArgValue] :
                 \A j \in DOMAIN variant.fields :
                    f[j] \in TypeValues(variant.fields[j].type_)}}

(* The values of the generated enum Call.                                  *)
CallValues(enum) == UNION {VariantValues(enum[i]) : i \in DOMAIN enum}

(* match: the index of the first arm whose pattern fits the variant.       *)
MatchArm(arms, variant) ==
    CHOOSE i \in DOMAIN arms :
        /\ arms[i].pattern = variant
        /\ \A j \in 1..(i - 1) : arms[j].pattern # variant

(* The value a name is bound to by the pattern of an arm.                  *)
Bound(binds, args, name) ==
    args[CHOOSE j \in DOMAIN binds : binds[j] = name]

(* Evaluation of a weight expression with the pattern's bindings in scope. *)
EvalWeight(expr, binds, args) ==
    [base |-> expr.base +
              (IF expr.arg_ref = "" THEN 0 ELSE Bound(binds, args, expr.arg_ref)),
     per_arg |-> expr.per_arg,
     class |-> expr.class,
     pays |-> expr.pays]

RECURSIVE PosSum(_, _)
PosSum(t, i) == IF i > Len(t) THEN 0 ELSE i * t[i] + PosSum(t, i + 1)

(* The three queries of the weight contract.                               *)
weigh_data(base_weight, target) ==
    base_weight.base + base_weight.per_arg * PosSum(target, 1)

classify_dispatch(base_weight, target) == base_weight.class

pays_fee(base_weight, target) == base_weight.pays

get_dispatch_info(code, self) ==
    LET arm == code.get_dispatch_info[MatchArm(code.get_dispatch_info, self.variant)]
        ref(names) == [j \in DOMAIN names |-> Bound(arm.binds, self.args, names[j])]
        base == EvalWeight(arm.body.base_weight, arm.binds, self.args)
    IN IF arm.body.kind = "unreachable"
       THEN [tag |-> "panic", msg |-> arm.body.msg]
       ELSE [tag |-> "DispatchInfo",
             weight |-> weigh_data(base, ref(arm.body.weigh_data)),
             class |-> classify_dispatch(base, ref(arm.body.classify_dispatch)),
             pays_fee |-> pays_fee(base, ref(arm.body.pays_fee))]

get_call_name(code, self) ==
    LET arm == code.get_call_name[MatchArm(code.get_call_name, self.variant)]
    IN IF arm.body.kind = "unreachable"
       THEN [tag |-> "panic", msg |-> arm.body.msg]
       ELSE [tag |-> "name", name |-> arm.body.name]

(* What a pallet method may return, and the two Into conversions.          *)
DefaultPostInfo ==
    [kind |-> "PostDispatchInfo", actual_weight |-> None, pays_fee |-> "Yes"]

RefundPostInfo ==
    [kind |-> "PostDispatchInfo", actual_weight |-> Some(1), pays_fee |-> "No"]

MethodReturns ==
    {[tag |-> "Ok", value |-> [kind |-> "unit"]],
     [tag |-> "Ok", value |-> RefundPostInfo],
     [tag |-> "Err", value |-> [kind |-> "DispatchError", error |-> "BadOrigin"]],
     [tag |-> "Err", value |-> [kind |-> "DispatchErrorWithPostInfo",
                                post_info |-> RefundPostInfo,
                                error |-> "Other"]]}

into_post_info(v) == IF v.kind = "unit" THEN DefaultPostInfo ELSE v

into_dispatch_error(e) ==
    IF e.kind = "DispatchError"
    THEN [kind |-> "DispatchErrorWithPostInfo",
          post_info |-> DefaultPostInfo,
          error |-> e.error]
    ELSE e

(* Variant of the result mapping that turns a failure into a success.      *)
map_result_swallow(ret) ==
    IF ret.tag = "Ok"
    THEN [tag |-> "Ok", value |-> into_post_info(ret.value)]
    ELSE [tag |-> "Ok", value |-> DefaultPostInfo]

(* .map(Into::into).map_err(Into::into)                                    *)
map_result(ret) ==
    IF ret.tag = "Ok"
    THEN [tag |-> "Ok", value |-> into_post_info(ret.value)]
    ELSE [tag |-> "Err", value |-> into_dispatch_error(ret.value)]

Origins == {"Root", "Signed"}

(* dispatch_bypass_filter: the pallet calls it makes and what it returns.  *)
(* ret is what the invoked pallet method returns.                          *)
dispatch_bypass_filter(code, self, origin, ret) ==
    LET arm == code.dispatch_bypass_filter[
                   MatchArm(code.dispatch_bypass_filter, self.variant)]
        value(name) == IF \E j \in DOMAIN arm.binds : arm.binds[j] = name
                       THEN Bound(arm.binds, self.args, name)
                       ELSE origin
    IN IF arm.body.kind = "unreachable"
       THEN [invoked |-> <<>>,
             result |-> [tag |-> "panic", msg |-> arm.body.msg]]
       ELSE [invoked |-> <<[method |-> arm.body.callee,
                            args |-> [j \in DOMAIN arm.body.args |->
                                        value(arm.body.args[j])]]>>,
             result |-> map_result(ret)]

(* expanding the probe macro_rules! #macro_ident { () => { body } }        *)
expand_probe(code) ==
    IF code.macro_body # <<>> /\ code.macro_body[1] = "compile_error!"
    THEN [tag |-> "compile_error", msg |-> code.macro_body[2]]
    ELSE [tag |-> "ok"]

(* ------------------------------ state ---------------------------------- *)
VARIABLES
    COUNTER,    \* the thread_local counter: one Counter per thread
    history,    \* the expand_call invocations made so far, in order
    pallet,     \* the last expanded pallet: its def and its generated code
    call,       \* the Call value held by the runtime, if any
    last        \* the last operation of the generated code and its result

vars == <<COUNTER, history, pallet, call, last>>

NoOp == [op |-> "none"]

def_kind(def) ==
    IF def.call.tag = "None" THEN "none"
    ELSE IF methods_of(def) = <<>> THEN "empty"
    ELSE "methods"

Init ==
    /\ COUNTER = [t \in Threads |-> 0]
    /\ history = <<>>
    /\ pallet = None
    /\ call = None
    /\ last = NoOp

(* One invocation of expand_call(def) on thread t.                         *)
ExpandCall(t, def) ==
    /\ Len(history) < MaxExpansions
    /\ LET counter == inc(COUNTER[t])
           count == counter.ret
           code == expand_call(def, count)
       IN /\ COUNTER' = [COUNTER EXCEPT ![t] = counter.self]
          /\ pallet' = Some([def |-> def, code |-> code])
          /\ history' = Append(history,
                 [thread |-> t,
                  kind |-> def_kind(def),
                  count |-> count,
                  macro_ident |-> code.macro_ident,
                  probe |-> expand_probe(code)])
    /\ call' = None
    /\ last' = NoOp

(* The runtime obtains a value of the generated Call type.                 *)
Construct(v) ==
    /\ pallet.tag = "Some"
    /\ v \in CallValues(pallet.value.code.enum)
    /\ call' = Some(v)
    /\ last' = NoOp
    /\ UNCHANGED <<COUNTER, history, pallet>>

(* call.get_dispatch_info(): takes &self.                                  *)
GetDispatchInfo ==
    /\ pallet.tag = "Some"
    /\ call.tag = "Some"
    /\ last' = [op |-> "get_dispatch_info",
                self |-> call.value,
                result |-> get_dispatch_info(pallet.value.code, call.value)]
    /\ UNCHANGED <<COUNTER, history, pallet, call>>

(* call.get_call_name(): takes &self.                                      *)
GetCallName ==
    /\ pallet.tag = "Some"
    /\ call.tag = "Some"
    /\ last' = [op |-> "get_call_name",
                self |-> call.value,
                result |-> get_call_name(pallet.value.code, call.value)]
    /\ UNCHANGED <<COUNTER, history, pallet, call>>

(* call.dispatch_bypass_filter(origin): takes self by value; the invoked   *)
(* pallet method returns ret.                                              *)
Dispatch(origin, ret) ==
    /\ pallet.tag = "Some"
    /\ call.tag = "Some"
    /\ LET d == dispatch_bypass_filter(pallet.value.code, call.value, origin, ret)
       IN last' = [op |-> "dispatch_bypass_filter",
                   self |-> call.value,
                   origin |-> origin,
                   ret |-> ret,
                   invoked |-> d.invoked,
                   result |-> d.result]
    /\ call' = None
    /\ UNCHANGED <<COUNTER, history, pallet>>

(* Pallet::call_functions()                                                *)
CallFunctions ==
    /\ pallet.tag = "Some"
    /\ last' = [op |-> "call_functions",
                result |-> pallet.value.code.call_functions]
    /\ UNCHANGED <<COUNTER, history, pallet, call>>

(* The first expansion of a compilation: the pallet the runtime is built   *)
(* from.                                                                   *)
ExpandFirst(t, def) ==
    /\ history = <<>>
    /\ ExpandCall(t, def)

(* Compile time: the expansions made by the threads of one process.        *)
NextGen == \E t \in Threads, def \in Defs : ExpandCall(t, def)

SpecGen == Init /\ [][NextGen]_vars

(* Run time: one expanded pallet and the functions generated for it.       *)
NextRun ==
    \/ \E t \in Threads, def \in Defs : ExpandFirst(t, def)
    \/ \E v \in CallValues(IF pallet.tag = "Some"
                             THEN pallet.value.code.enum ELSE <<>>) : Construct(v)
    \/ GetDispatchInfo
    \/ GetCallName
    \/ \E origin \in Origins, ret \in MethodReturns : Dispatch(origin, ret)
    \/ CallFunctions

SpecRun == Init /\ [][NextRun]_vars

(* Both together.                                                          *)
Next == NextGen \/ NextRun

Spec == Init /\ [][Next]_vars

(* ============================ properties =============================== *)
SameThread(i, j) == history[i].thread = history[j].thread

KindsOnThread(t) ==
    {history[i].kind : i \in {k \in DOMAIN history : history[k].thread = t}}

(* The declaration of the method a Call value is a variant of.             *)
MethodNamed(def, name) ==
    LET methods == methods_of(def)
    IN methods[CHOOSE i \in DOMAIN methods : methods[i].name = name]

(* The canonical string of a type expression.                              *)
Canonical(type_) == Concat(clean_type_string(to_string(type_)))

(* C1: expand_call invocations run one after another in one compilation    *)
(* unit (one expansion thread) never produce the same helper identifier    *)
(* __is_call_part_defined_<n>, whatever def.call is in each of them.       *)
C1_UniqueHelperIdent ==
    \A i, j \in DOMAIN history :
        (i # j /\ SameThread(i, j))
            => history[i].macro_ident # history[j].macro_ident

(* Three invocations on one thread: no call block, an empty call block    *)
(* and a call block with methods.                                          *)
C1_Witness ==
    \E t \in Threads :
        /\ Cardinality({i \in DOMAIN history : history[i].thread = t}) >= 3
        /\ KindsOnThread(t) = {"none", "empty", "methods"}

(* C2 as stated: any two invocations in the process, on whatever threads,  *)
(* receive different counter values.                                       *)
C2_ProcessWideCounter ==
    \A i, j \in DOMAIN history :
        i # j => history[i].count # history[j].count

(* C2 as amended: the counter is per thread. The k-th invocation on a      *)
(* thread receives k - 1, so two invocations on the same thread never      *)
(* receive the same value, and each thread's counter holds the number of   *)
(* invocations made on it.                                                 *)
C2_PerThreadCounter ==
    /\ \A i \in DOMAIN history :
          history[i].count =
            Cardinality({k \in 1..(i - 1) : SameThread(k, i)})
    /\ \A i, j \in DOMAIN history :
          (i # j /\ SameThread(i, j)) => history[i].count # history[j].count
    /\ \A t \in Threads :
          COUNTER[t] = Cardinality({k \in DOMAIN history : history[k].thread = t})

(* Two invocations on one thread and one on another thread that received   *)
(* a value already handed out.                                             *)
C2_Witness ==
    \E i, j, k \in DOMAIN history :
        /\ i # j /\ SameThread(i, j)
        /\ ~SameThread(i, k)
        /\ history[i].count = history[k].count

(* C3: the probe expands to a compile error exactly when def.call is None; *)
(* a declared call block, even an empty one, gives a no-op probe, although *)
(* both cases have an empty method list.                                   *)
C3_ProbeErrorIffNoCallBlock ==
    /\ \A i \in DOMAIN history :
          /\ history[i].probe.tag = "compile_error" <=> history[i].kind = "none"
          /\ history[i].probe.tag = "ok" <=> history[i].kind # "none"
    /\ pallet.tag = "Some" =>
          /\ expand_probe(pallet.value.code).tag = "compile_error"
                <=> pallet.value.def.call.tag = "None"
          /\ pallet.value.def.call.tag = "Some"
                => pallet.value.code.macro_body = <<>>
          /\ def_kind(pallet.value.def) \in {"none", "empty"}
                => pallet.value.code.get_call_names = <<>>
    /\ \A i, j \in DOMAIN history :
          (history[i].kind = "none" /\ history[j].kind = "empty")
              => history[i].probe # history[j].probe

(* A pallet without a call block and a pallet with an empty one were both  *)
(* expanded.                                                               *)
C3_Witness ==
    /\ \E i \in DOMAIN history : history[i].kind = "none"
    /\ \E j \in DOMAIN history : history[j].kind = "empty"
    /\ pallet.tag = "Some" /\ def_kind(pallet.value.def) = "empty"

PatternCount(arms, name) ==
    Cardinality({i \in DOMAIN arms : arms[i].pattern = name})

(* An arm list has one arm per method, in declaration order, each the arm  *)
(* that a value of that method's variant selects, and then the sentinel.   *)
ArmsCoverMethods(arms, enum, methods) ==
    LET N == Len(methods) IN
    /\ Len(arms) = N + 1
    /\ \A i \in 1..N :
          /\ arms[i].pattern = methods[i].name
          /\ arms[i].body.kind # "unreachable"
          /\ \E v \in CallValues(enum) :
                v.variant = methods[i].name /\ MatchArm(arms, v.variant) = i
    /\ arms[N + 1].pattern = "__Ignore"
    /\ arms[N + 1].body.kind = "unreachable"
    /\ PatternCount(arms, "__Ignore") = 1

(* C4: with N declared methods (N = 0 without a call block) the enum Call  *)
(* has N + 1 variants, one per method plus __Ignore, and the matches of    *)
(* get_dispatch_info and dispatch_bypass_filter have N + 1 arms each: one  *)
(* per method, selected by a value of that variant, plus the sentinel arm. *)
C4_VariantsAndArms ==
    pallet.tag = "Some" =>
        LET methods == methods_of(pallet.value.def)
            code == pallet.value.code
            N == Len(methods)
        IN /\ Len(code.enum) = N + 1
           /\ Cardinality({i \in DOMAIN code.enum :
                              code.enum[i].name = "__Ignore"}) = 1
           /\ \A i \in 1..N :
                 Cardinality({k \in DOMAIN code.enum :
                                code.enum[k].name = methods[i].name}) = 1
           /\ pallet.value.def.call.tag = "None" => N = 0
           /\ ArmsCoverMethods(code.get_dispatch_info, code.enum, methods)
           /\ ArmsCoverMethods(code.dispatch_bypass_filter, code.enum, methods)

(* A pallet with at least two methods, expanded after one without a call   *)
(* block.                                                                  *)
C4_Witness ==
    /\ pallet.tag = "Some"
    /\ Len(methods_of(pallet.value.def)) >= 2
    /\ \E i \in DOMAIN history : history[i].kind = "none"

(* C5: dispatching a value of the variant of method m with arguments       *)
(* a1..ak and an origin invokes one pallet method, m, once, with           *)
(* (origin, a1, .., ak) in declared order, and consumes the value.         *)
C5_DispatchInvokesItsMethodOnce ==
    last.op = "dispatch_bypass_filter" =>
        LET m == MethodNamed(pallet.value.def, last.self.variant) IN
        /\ Len(last.invoked) = 1
        /\ last.invoked[1].method = m.name
        /\ Len(last.invoked[1].args) = 1 + Len(m.args)
        /\ last.invoked[1].args[1] = last.origin
        /\ \A j \in DOMAIN m.args :
              last.invoked[1].args[j + 1] = last.self.args[j]
        /\ call = None

(* A dispatch of transfer(dest: 0, value: 1), declared second in the       *)
(* pallet.                                                                 *)
C5_Witness ==
    /\ last.op = "dispatch_bypass_filter"
    /\ last.self = [variant |-> "transfer", args |-> <<0, 1>>]
    /\ Len(methods_of(pallet.value.def)) >= 2
    /\ methods_of(pallet.value.def)[2].name = "transfer"

(* C6: dispatch returns a success exactly when the invoked method did and  *)
(* a failure exactly when it did, the value converted by the into-post-    *)
(* info or the into-dispatch-error conversion; the method is called once.  *)
C6_ResultPassedThrough ==
    last.op = "dispatch_bypass_filter" =>
        /\ last.result.tag = "Ok" <=> last.ret.tag = "Ok"
        /\ last.result.tag = "Err" <=> last.ret.tag = "Err"
        /\ last.ret.tag = "Ok" =>
              /\ last.result.value = into_post_info(last.ret.value)
              /\ last.result.value.kind = "PostDispatchInfo"
        /\ last.ret.tag = "Err" =>
              /\ last.result.value = into_dispatch_error(last.ret.value)
              /\ last.result.value.kind = "DispatchErrorWithPostInfo"
              /\ last.result.value.error = last.ret.value.error
        /\ Len(last.invoked) = 1

(* A dispatch whose method failed with a plain DispatchError.              *)
C6_Witness ==
    /\ last.op = "dispatch_bypass_filter"
    /\ last.ret.tag = "Err"
    /\ last.ret.value.kind = "DispatchError"

(* C7: get_dispatch_info of a value of the variant of method m returns     *)
(* (weight, class, pays_fee) from the three queries on the weight          *)
(* expression declared for m, each over the value's arguments in declared  *)
(* order; the value is left as it was.                                     *)
C7_DispatchInfoOfDeclaredWeight ==
    last.op = "get_dispatch_info" =>
        LET m == MethodNamed(pallet.value.def, last.self.variant)
            names == [j \in DOMAIN m.args |-> m.args[j].name]
            base == EvalWeight(m.weight, names, last.self.args)
        IN /\ last.result =
                [tag |-> "DispatchInfo",
                 weight |-> weigh_data(base, last.self.args),
                 class |-> classify_dispatch(base, last.self.args),
                 pays_fee |-> pays_fee(base, last.self.args)]
           /\ last.self.variant = "set_value" =>
                 /\ last.result.weight = 10
                 /\ last.result.class = "Normal"
                 /\ last.result.pays_fee = TRUE
           /\ call = Some(last.self)

(* get_dispatch_info of transfer(dest: 0, value: 1), declared second.      *)
C7_Witness ==
    /\ last.op = "get_dispatch_info"
    /\ last.self = [variant |-> "transfer", args |-> <<0, 1>>]
    /\ Len(methods_of(pallet.value.def)) >= 2
    /\ methods_of(pallet.value.def)[2].name = "transfer"
    /\ last.result.weight = 5 + 1 + 3 * (1 * 0 + 2 * 1)

(* The metadata table a method list must produce.                          *)
TableFollowsDeclarations(table, methods) ==
    /\ Len(table) = Len(methods)
    /\ \A i \in DOMAIN table :
          /\ table[i].name = methods[i].name
          /\ table[i].name # "__Ignore"
          /\ Len(table[i].arguments) = Len(methods[i].args)
          /\ \A j \in DOMAIN methods[i].args :
                table[i].arguments[j].name = methods[i].args[j].name
          /\ table[i].documentation = methods[i].docs

(* C8: call_functions returns one entry per declared method, none for the  *)
(* sentinel, the i-th entry with the name, the argument names in declared  *)
(* order and the doc lines of the i-th method.                             *)
C8_MetadataInDeclarationOrder ==
    /\ pallet.tag = "Some" =>
          TableFollowsDeclarations(pallet.value.code.call_functions,
                                   methods_of(pallet.value.def))
    /\ last.op = "call_functions" =>
          TableFollowsDeclarations(last.result, methods_of(pallet.value.def))

(* call_functions was called on a pallet with several methods, one of      *)
(* them with two arguments.                                                *)
C8_Witness ==
    /\ last.op = "call_functions"
    /\ Len(last.result) >= 2
    /\ \E i \in DOMAIN last.result : Len(last.result[i].arguments) = 2

(* C9: for every argument of every method the enum field carries           *)
(* #[codec(compact)] exactly when the argument is marked compact, and its  *)
(* metadata type string is the canonical string of Compact<T> exactly when *)
(* it is marked compact, and of T otherwise.                               *)
C9_CompactAtBothSites ==
    pallet.tag = "Some" =>
        LET methods == methods_of(pallet.value.def)
            code == pallet.value.code
        IN \A i \in DOMAIN methods : \A j \in DOMAIN methods[i].args :
            LET a == methods[i].args[j]
                field == code.enum[i + 1].fields[j]
                ty == code.call_functions[i].arguments[j].ty
                wrapped == Canonical(<<"Compact", "<">> \o a.type_ \o <<">">>)
            IN /\ code.enum[i + 1].name = methods[i].name
               /\ field.type_ = a.type_
               /\ field.attr = <<"#[codec(compact)]">> <=> a.is_compact
               /\ field.attr = <<>> <=> ~a.is_compact
               /\ ty = wrapped <=> a.is_compact
               /\ ~a.is_compact => ty = Canonical(a.type_)
               /\ (a.is_compact /\ a.type_ = TyU64) => ty = "Compact<u64>"
               /\ (~a.is_compact /\ a.type_ = TyAccountId) => ty = "T::AccountId"

(* The expanded pallet declares transfer, with a plain and a compact       *)
(* argument.                                                               *)
C9_Witness ==
    /\ pallet.tag = "Some"
    /\ \E i \in DOMAIN methods_of(pallet.value.def) :
          LET args == methods_of(pallet.value.def)[i].args
          IN \E j, k \in DOMAIN args : args[j].is_compact /\ ~args[k].is_compact

(* The sentinel value the type system rules out.                           *)
IgnoreValue == [variant |-> "__Ignore", args |-> <<0, 0>>]

(* C10: no operation yields a Call value of the variant __Ignore, so no    *)
(* operation on a Call value reaches a sentinel arm; on a sentinel value   *)
(* get_dispatch_info and dispatch_bypass_filter would panic: they return   *)
(* neither a DispatchInfo nor a DispatchError and invoke no method.        *)
C10_SentinelNeverConstructed ==
    /\ call.tag = "Some" => call.value.variant # "__Ignore"
    /\ last.op \in {"get_dispatch_info", "get_call_name", "dispatch_bypass_filter"}
          => /\ last.self.variant # "__Ignore"
             /\ last.result.tag # "panic"
    /\ pallet.tag = "Some" =>
          /\ \A v \in CallValues(pallet.value.code.enum) : v.variant # "__Ignore"
          /\ get_dispatch_info(pallet.value.code, IgnoreValue).tag = "panic"
          /\ \A origin \in Origins, ret \in MethodReturns :
                LET d == dispatch_bypass_filter(pallet.value.code, IgnoreValue,
                                                origin, ret)
                IN d.result.tag = "panic" /\ d.invoked = <<>>

(* A value of a pallet with methods was constructed and dispatched.        *)
C10_Witness ==
    /\ last.op = "dispatch_bypass_filter"
    /\ last.result.tag \in {"Ok", "Err"}
    /\ Len(pallet.value.code.enum) >= 2

====
